---- MODULE Spec2Model ----
(***************************************************************************)
(* Model of polymarket_api/live_orderbook.py: the reconnecting websocket   *)
(* session of stream_market_orderbook and the order-book mutations         *)
(* _apply_book_snapshot / _apply_price_change it drives.                   *)
(*                                                                         *)
(* Decimals are modelled by their numeric value, counted in units of       *)
(* 10^-MaxDigits (Python's Decimal compares numerically, so "0.46" and     *)
(* "0.4600" are the same value).  A price key, the string produced by      *)
(* _price_key, is modelled by the number of 10^-KeyDigits units it         *)
(* spells.  Delays are whole seconds (1.0, 2.0, ... are exact floats).     *)
(***************************************************************************)
EXTENDS Integers, Sequences, FiniteSets, TLC

\* ------------------------------------------------------------------ bounds
\* most fractional digits of a decimal string on the wire
MaxDigits == 5
\* most consecutive transport failures explored
MaxFails == 7
MaxDepth == 3
MaxPageSize == 2
MaxPageLen == 3
MaxStart == 1
MaxRequests == 3

\* ------------------------------------------------------- program constants
\* Decimal("0.0001") in _price_key
KeyDigits == 4
\* reconnect_delay = 1.0
InitialDelay == 1
\* min(30.0, ...)
MaxDelay == 30
\* reconnect_delay * 2.0
BackoffFactor == 2

\* --------------------------------------------------------------- numerics
RECURSIVE Pow10(_)
Pow10(n) == IF n <= 0 THEN 1 ELSE 10 * Pow10(n - 1)

Min2(a, b) == IF a <= b THEN a ELSE b

SetMax(S) == CHOOSE x \in S : \A y \in S : y <= x
SetMin(S) == CHOOSE x \in S : \A y \in S : x <= y

\* A JSON scalar offered as a number: k = "num" is a decimal string with
\* coefficient c and e fractional digits, k = "bad" a value Decimal() rejects,
\* k = "none" a missing key or null.
Num(c, e) == [k |-> "num", c |-> c, e |-> e]
BadNum == [k |-> "bad", c |-> 0, e |-> 0]
NoNum == [k |-> "none", c |-> 0, e |-> 0]

\* _to_decimal applied to a wire value: Decimal(str(value)), "0" on failure.
ToDecimal(v) == IF v.k = "num" THEN v.c * Pow10(MaxDigits - v.e) ELSE 0

\* The quantization rounding every tie upwards (ROUND_HALF_UP).
PriceKeyHalfUp(d) ==
    LET u == Pow10(MaxDigits - KeyDigits)
    IN  IF 2 * (d % u) >= u THEN (d \div u) + 1 ELSE d \div u

\* Decimal.quantize(Decimal("0.0001")) under the default ROUND_HALF_EVEN,
\* then format(.., "f"): the key, as a count of 10^-KeyDigits.
PriceKey(d) ==
    LET u == Pow10(MaxDigits - KeyDigits)
        q == d \div u
        r == d % u
    IN  IF 2 * r > u THEN q + 1
        ELSE IF 2 * r < u THEN q
        ELSE IF q % 2 = 0 THEN q ELSE q + 1

\* _to_decimal applied to a key of a side map: the key parsed back.
KeyToDecimal(key) == key * Pow10(MaxDigits - KeyDigits)

\* An optional Decimal (best_bid / best_ask): None or a value.
NoneVal == [some |-> FALSE, v |-> 0]
Some(x) == [some |-> TRUE, v |-> x]

\* ------------------------------------------------------------ wire values
\* A side list of a message: has = the key is in the object, lv = its levels.
NoSide == [has |-> FALSE, lv |-> <<>>]
Side(lv) == [has |-> TRUE, lv |-> lv]
\* An element of a side list: a JSON object with price and size, or not one.
Lvl(p, s) == [dict |-> TRUE, price |-> p, size |-> s]
NonDictLvl == [dict |-> FALSE, price |-> NoNum, size |-> NoNum]

\* _iter_levels: the dict elements of a list, [] for anything else.
IterLevels(lv) == SelectSeq(lv, LAMBDA x : x.dict)

\* msg.get("bids") or msg.get("buys"): the first list if it is truthy
\* (present and non-empty), otherwise whatever the second key holds.
FirstTruthy(a, b) == IF a.has /\ Len(a.lv) > 0 THEN a.lv ELSE b.lv

EmptyMap == [k \in {} |-> 0]

\* The loop keeping every level whose size is not negative.
RECURSIVE BuildMapKeepZero(_, _)
BuildMapKeepZero(levels, acc) ==
    IF levels = <<>> THEN acc
    ELSE LET lvl == Head(levels)
             size == ToDecimal(lvl.size)
             key == PriceKey(ToDecimal(lvl.price))
             nxt == IF size >= 0
                    THEN [k \in DOMAIN acc \cup {key} |->
                             IF k = key THEN size ELSE acc[k]]
                    ELSE acc
         IN  BuildMapKeepZero(Tail(levels), nxt)

\* The loop of lines 248-252: later levels overwrite earlier ones at the
\* same key; levels whose size is not > 0 are skipped.
RECURSIVE BuildMap(_, _)
BuildMap(levels, acc) ==
    IF levels = <<>> THEN acc
    ELSE LET lvl == Head(levels)
             price == ToDecimal(lvl.price)
             size == ToDecimal(lvl.size)
             key == PriceKey(price)
             nxt == IF size > 0
                    THEN [k \in DOMAIN acc \cup {key} |->
                             IF k = key THEN size ELSE acc[k]]
                    ELSE acc
         IN  BuildMap(Tail(levels), nxt)

\* ------------------------------------------------------------- order book
\* token_ids handed to stream_market_orderbook: the Subscription.
token_ids == <<"t1", "t2">>
\* The instruments it names: the keys of the books dict.
TokenIds == {token_ids[i] : i \in DOMAIN token_ids}
\* The subscription message of lines 314-318 for the list ids.
Subscription(ids) ==
    [assets_ids |-> ids, type |-> "market", custom_feature_enabled |-> TRUE]
\* an instrument identifier that is not subscribed
Untracked == "tx"

\* One entry of books (lines 320-323).
EmptyBook == [bids |-> EmptyMap, asks |-> EmptyMap,
              best_bid |-> NoneVal, best_ask |-> NoneVal]

\* The snapshot merged into the maps already held instead of replacing them.
ApplyBookSnapshotMerging(state, msg) ==
    LET bids_map == BuildMap(IterLevels(FirstTruthy(msg.bids, msg.buys)), state.bids)
        asks_map == BuildMap(IterLevels(FirstTruthy(msg.asks, msg.sells)), state.asks)
    IN  [bids |-> bids_map,
         asks |-> asks_map,
         best_bid |-> IF DOMAIN bids_map # {}
                      THEN Some(SetMax({KeyToDecimal(p) : p \in DOMAIN bids_map}))
                      ELSE state.best_bid,
         best_ask |-> IF DOMAIN asks_map # {}
                      THEN Some(SetMin({KeyToDecimal(p) : p \in DOMAIN asks_map}))
                      ELSE state.best_ask]

\* The snapshot clearing a best price whose side came out empty.
ApplyBookSnapshotClearing(state, msg) ==
    LET bids_map == BuildMap(IterLevels(FirstTruthy(msg.bids, msg.buys)), EmptyMap)
        asks_map == BuildMap(IterLevels(FirstTruthy(msg.asks, msg.sells)), EmptyMap)
    IN  [bids |-> bids_map,
         asks |-> asks_map,
         best_bid |-> IF DOMAIN bids_map # {}
                      THEN Some(SetMax({KeyToDecimal(p) : p \in DOMAIN bids_map}))
                      ELSE NoneVal,
         best_ask |-> IF DOMAIN asks_map # {}
                      THEN Some(SetMin({KeyToDecimal(p) : p \in DOMAIN asks_map}))
                      ELSE NoneVal]

\* The snapshot taking the best prices from the maps it is about to replace.
ApplyBookSnapshotStaleBest(state, msg) ==
    LET bids_map == BuildMap(IterLevels(FirstTruthy(msg.bids, msg.buys)), EmptyMap)
        asks_map == BuildMap(IterLevels(FirstTruthy(msg.asks, msg.sells)), EmptyMap)
    IN  [bids |-> bids_map,
         asks |-> asks_map,
         best_bid |-> IF DOMAIN state.bids # {}
                      THEN Some(SetMax({KeyToDecimal(p) : p \in DOMAIN state.bids}))
                      ELSE state.best_bid,
         best_ask |-> IF DOMAIN state.asks # {}
                      THEN Some(SetMin({KeyToDecimal(p) : p \in DOMAIN state.asks}))
                      ELSE state.best_ask]

\* _apply_book_snapshot(state, msg): both maps are rebuilt and assigned,
\* a best price is recomputed only from a non-empty map.
ApplyBookSnapshot(state, msg) ==
    LET bids_map == BuildMap(IterLevels(FirstTruthy(msg.bids, msg.buys)), EmptyMap)
        asks_map == BuildMap(IterLevels(FirstTruthy(msg.asks, msg.sells)), EmptyMap)
    IN  [bids |-> bids_map,
         asks |-> asks_map,
         best_bid |-> IF DOMAIN bids_map # {}
                      THEN Some(SetMax({KeyToDecimal(p) : p \in DOMAIN bids_map}))
                      ELSE state.best_bid,
         best_ask |-> IF DOMAIN asks_map # {}
                      THEN Some(SetMin({KeyToDecimal(p) : p \in DOMAIN asks_map}))
                      ELSE state.best_ask]

\* One record of price_changes: a JSON object naming an instrument, with
\* optional best_bid / best_ask, or something that is not an object.
Item(t, bb, ba) == [dict |-> TRUE, asset_id |-> t, best_bid |-> bb, best_ask |-> ba]
NonDictItem == [dict |-> FALSE, asset_id |-> "", best_bid |-> NoNum, best_ask |-> NoNum]

\* The loop body writing best_ask from the best_bid field.
ApplyChangeItemWrongField(acc, item) ==
    IF item.asset_id \notin DOMAIN acc.books THEN acc
    ELSE LET state == acc.books[item.asset_id]
             s1 == IF item.best_bid.k # "none"
                   THEN [state EXCEPT !.best_bid = Some(ToDecimal(item.best_bid))]
                   ELSE state
             s2 == IF item.best_ask.k # "none"
                   THEN [s1 EXCEPT !.best_ask = Some(ToDecimal(item.best_bid))]
                   ELSE s1
         IN  [books |-> [acc.books EXCEPT ![item.asset_id] = s2],
              changed |-> acc.changed \/ item.best_bid.k # "none"
                                      \/ item.best_ask.k # "none"]

\* The loop body writing both best prices whatever the record carries.
ApplyChangeItemUnguarded(acc, item) ==
    IF item.asset_id \notin DOMAIN acc.books THEN acc
    ELSE LET state == acc.books[item.asset_id]
             s2 == [state EXCEPT
                       !.best_bid = IF item.best_bid.k # "none"
                                    THEN Some(ToDecimal(item.best_bid)) ELSE NoneVal,
                       !.best_ask = IF item.best_ask.k # "none"
                                    THEN Some(ToDecimal(item.best_ask)) ELSE NoneVal]
         IN  [books |-> [acc.books EXCEPT ![item.asset_id] = s2],
              changed |-> TRUE]

\* The body of the loop of _apply_price_change for one item (lines 272-284).
ApplyChangeItem(acc, item) ==
    IF item.asset_id \notin DOMAIN acc.books THEN acc
    ELSE LET state == acc.books[item.asset_id]
             s1 == IF item.best_bid.k # "none"
                   THEN [state EXCEPT !.best_bid = Some(ToDecimal(item.best_bid))]
                   ELSE state
             s2 == IF item.best_ask.k # "none"
                   THEN [s1 EXCEPT !.best_ask = Some(ToDecimal(item.best_ask))]
                   ELSE s1
         IN  [books |-> [acc.books EXCEPT ![item.asset_id] = s2],
              changed |-> acc.changed \/ item.best_bid.k # "none"
                                      \/ item.best_ask.k # "none"]

RECURSIVE PriceChangeLoop(_, _)
PriceChangeLoop(items, acc) ==
    IF items = <<>> THEN acc
    ELSE PriceChangeLoop(Tail(items), ApplyChangeItem(acc, Head(items)))

\* _apply_price_change(books, msg): the books afterwards and the flag returned.
ApplyPriceChange(books, msg) ==
    PriceChangeLoop(IterLevels(msg.price_changes), [books |-> books, changed |-> FALSE])

\* ---------------------------------------------------------------- messages
\* A JSON object of a frame.  event_type and asset_id are "" when the key is
\* missing (str(msg.get(..) or "")); has_asset is `"asset_id" in msg`.
Msg(et, hasAsset, asset, bids, buys, asks, sells, changes) ==
    [dict |-> TRUE, event_type |-> et, has_asset |-> hasAsset, asset_id |-> asset,
     bids |-> bids, buys |-> buys, asks |-> asks, sells |-> sells,
     price_changes |-> changes]
\* An element of a JSON array that is not an object.
NonDictMsg == [Msg("", FALSE, "", NoSide, NoSide, NoSide, NoSide, <<>>)
                  EXCEPT !.dict = FALSE]

\* The test of line 360.
IsSnapshot(msg) ==
    \/ msg.event_type = "book"
    \/ msg.has_asset /\ (msg.bids.has \/ msg.asks.has)

\* The test of line 366, reached only when line 360 fails.
IsPriceChange(msg) == ~IsSnapshot(msg) /\ msg.event_type = "price_change"

\* last_update_text, by what wrote it last: the initial "waiting for feed...",
\* a timestamp (_timestamp_text), or the disconnect message with its delay.
StatusWaiting == [kind |-> "waiting", delay |-> 0]
StatusTimestamp == [kind |-> "timestamp", delay |-> 0]
\* "{reconnect_delay:.1f}": the delay as text with one fractional digit,
\* held as a count of tenths of a second (the delays are whole seconds).
Format1f(d) == d * 10
StatusDisconnected(d) == [kind |-> "disconnected", delay |-> Format1f(d)]

\* The loop body creating a book for whatever instrument a snapshot names.
ProcessMsgCreating(acc, msg) ==
    LET known == msg.asset_id \in DOMAIN acc.books
        booksAfter ==
            IF IsSnapshot(msg)
            THEN [t \in DOMAIN acc.books \cup {msg.asset_id} |->
                    IF t = msg.asset_id
                    THEN ApplyBookSnapshot(IF known THEN acc.books[t] ELSE EmptyBook, msg)
                    ELSE acc.books[t]]
            ELSE IF IsPriceChange(msg)
            THEN ApplyPriceChange(acc.books, msg).books
            ELSE acc.books
        changedAfter ==
            IF IsSnapshot(msg) THEN TRUE
            ELSE IF IsPriceChange(msg)
            THEN acc.changed \/ ApplyPriceChange(acc.books, msg).changed
            ELSE acc.changed
    IN  [books |-> booksAfter,
         changed |-> changedAfter,
         status |-> IF changedAfter THEN StatusTimestamp ELSE acc.status]

\* The loop body raising the flag only when the books differ afterwards.
ProcessMsgFlagByDifference(acc, msg) ==
    LET booksAfter ==
            IF IsSnapshot(msg)
            THEN IF msg.asset_id \in DOMAIN acc.books
                 THEN [acc.books EXCEPT
                          ![msg.asset_id] = ApplyBookSnapshot(acc.books[msg.asset_id], msg)]
                 ELSE acc.books
            ELSE IF IsPriceChange(msg)
            THEN ApplyPriceChange(acc.books, msg).books
            ELSE acc.books
        changedAfter == acc.changed \/ booksAfter # acc.books
    IN  [books |-> booksAfter,
         changed |-> changedAfter,
         status |-> IF changedAfter THEN StatusTimestamp ELSE acc.status]

\* The body of `for msg in items` (lines 358-371) for one message.
ProcessMsg(acc, msg) ==
    LET booksAfter ==
            IF IsSnapshot(msg)
            THEN IF msg.asset_id \in DOMAIN acc.books
                 THEN [acc.books EXCEPT
                          ![msg.asset_id] = ApplyBookSnapshot(acc.books[msg.asset_id], msg)]
                 ELSE acc.books
            ELSE IF IsPriceChange(msg)
            THEN ApplyPriceChange(acc.books, msg).books
            ELSE acc.books
        changedAfter ==
            IF IsSnapshot(msg)
            THEN acc.changed \/ msg.asset_id \in DOMAIN acc.books
            ELSE IF IsPriceChange(msg)
            THEN acc.changed \/ ApplyPriceChange(acc.books, msg).changed
            ELSE acc.changed
    IN  [books |-> booksAfter,
         changed |-> changedAfter,
         status |-> IF changedAfter THEN StatusTimestamp ELSE acc.status]

RECURSIVE ProcessItems(_, _)
ProcessItems(items, acc) ==
    IF items = <<>> THEN acc
    ELSE ProcessItems(Tail(items), ProcessMsg(acc, Head(items)))

\* A text frame: json = it parses; shape = what json.loads returns, "dict",
\* "list" or "other" (number, string, null); elems = the object, or the
\* elements of the array.
Frame(shape, elems) == [json |-> TRUE, shape |-> shape, elems |-> elems]
NotJson == [json |-> FALSE, shape |-> "other", elems |-> <<>>]

\* Lines 349-354: the items of a payload (None for the `continue` branch is
\* the shape "other", which FrameItems is never asked about).
FrameItems(frame) == SelectSeq(frame.elems, LAMBDA x : x.dict)

\* ------------------------------------------------------- frames on the wire
P40 == Num(40, 2)
P45 == Num(45, 2)
P46 == Num(46, 2)
P47 == Num(47, 2)
P50 == Num(50, 2)
P5000 == Num(5000, 4)
P55 == Num(55, 2)
P56 == Num(56, 2)
\* 0.45005 lies halfway between the keys 0.4500 and 0.4501
P45005 == Num(45005, 5)
S0 == Num(0, 0)
S3 == Num(3, 0)
S5 == Num(5, 0)
S7 == Num(7, 0)
S10 == Num(10, 0)
SNeg == Num(-1, 0)

BidsA == <<Lvl(P45, S10), Lvl(P40, S0)>>
BidsB == <<Lvl(P50, S3), Lvl(P5000, S7), NonDictLvl>>
BidsC == <<Lvl(P45005, S5), Lvl(P40, S3), Lvl(P45, S7)>>
BidsDropped == <<Lvl(P40, SNeg), Lvl(P46, BadNum)>>
AsksA == <<Lvl(P55, S5)>>
AsksB == <<Lvl(BadNum, S3), Lvl(P56, S5), Lvl(P55, S7)>>
AsksDropped == <<Lvl(P55, S0)>>

\* Snapshot-shaped objects for instrument t.
SnapshotsFor(t) ==
    { Msg("book", TRUE, t, Side(BidsA), NoSide, Side(AsksA), NoSide, <<>>),
      Msg("book", TRUE, t, Side(BidsB), NoSide, Side(<<>>), NoSide, <<>>),
      Msg("book", TRUE, t, Side(<<>>), Side(BidsC), NoSide, Side(AsksB), <<>>),
      Msg("book", TRUE, t, Side(BidsDropped), NoSide, Side(AsksDropped), NoSide, <<>>),
      Msg("", TRUE, t, Side(BidsA), NoSide, NoSide, NoSide, <<>>),
      Msg("", TRUE, t, NoSide, NoSide, Side(AsksA), NoSide, <<>>),
      Msg("", TRUE, t, NoSide, Side(BidsA), NoSide, Side(AsksA), <<>>) }

\* A price_change object carrying the given records.
Delta(items) == Msg("price_change", FALSE, "", NoSide, NoSide, NoSide, NoSide, items)

DeltasFor(t) ==
    { Delta(<<Item(t, P46, NoNum)>>),
      Delta(<<Item(t, NoNum, P56)>>),
      Delta(<<Item(t, BadNum, P55), NonDictItem>>),
      Delta(<<Item(t, NoNum, NoNum)>>),
      Delta(<<Item(t, P47, NoNum), Item(t, P45005, NoNum)>>) }

\* The objects a frame may carry: everything above for "t1", a sample for the
\* second subscribed instrument and for an unsubscribed one, a "book" object
\* without asset_id, and an object of an unknown event type.
Messages ==
    SnapshotsFor("t1") \cup DeltasFor("t1")
    \cup { Msg("book", TRUE, "t2", Side(BidsA), NoSide, Side(AsksA), NoSide, <<>>),
           Delta(<<Item("t1", NoNum, P56), Item("t2", P47, P55)>>),
           Msg("book", TRUE, Untracked, Side(BidsA), NoSide, Side(AsksA), NoSide, <<>>),
           Delta(<<Item(Untracked, P46, P56)>>),
           Msg("book", FALSE, "", Side(BidsA), NoSide, Side(AsksA), NoSide, <<>>),
           Msg("last_trade_price", TRUE, "t1", NoSide, NoSide, NoSide, NoSide, <<>>) }

Frames ==
    { Frame("dict", <<m>>) : m \in Messages }
    \cup { Frame("list", <<>>),
           Frame("list", <<NonDictMsg,
                           Msg("book", TRUE, "t1", Side(BidsA), NoSide, Side(AsksA), NoSide, <<>>),
                           Delta(<<Item("t1", P46, NoNum)>>)>>),
           Frame("list", <<Delta(<<Item("t1", NoNum, P56)>>),
                           Msg("", TRUE, "t1", Side(BidsA), NoSide, NoSide, NoSide, <<>>)>>),
           Frame("other", <<>>),
           NotJson }

\* ---------------------------------------------------------------- history
\* What the wire last said about one best price of an instrument: nothing
\* yet, a snapshot that installed a non-empty map (v = the extreme price of
\* that map), or a price_change record carrying the field (v = its value).
NoSource == [src |-> "none", v |-> 0]
FromSnapshot(x) == [src |-> "snapshot", v |-> x]
FromDelta(x) == [src |-> "delta", v |-> x]

\* The snapshot object applied last to an instrument with nothing else for
\* that instrument since, and after = the book right after it was first
\* applied.
NoSnap == [set |-> FALSE, msg |-> NonDictMsg, after |-> EmptyBook]

\* again: whether the object processed last was a snapshot delivered a second
\* time running for its instrument, on the "same" connection or as the first
\* thing to change the display after a disconnect ("reconnected"); "no" else.
\* last: what the step taken last did: "wrote" = it assigned last_update_text,
\* "untracked" = it was a frame naming only unsubscribed instruments,
\* "quiet" = anything else.
InitHist == [bid |-> [t \in TokenIds |-> NoSource],
             ask |-> [t \in TokenIds |-> NoSource],
             snap |-> [t \in TokenIds |-> NoSnap],
             again |-> "no",
             last |-> "quiet"]

\* The history after a snapshot object for subscribed instrument t; `after`
\* is t's book once the object has been applied, `status` the status string
\* before it.
TrackSnapshot(h, t, msg, after, status) ==
    LET repeat == h.snap[t].set /\ h.snap[t].msg = msg
    IN  [bid |-> IF DOMAIN after.bids # {}
                 THEN [h.bid EXCEPT ![t] =
                          FromSnapshot(SetMax({KeyToDecimal(p) : p \in DOMAIN after.bids}))]
                 ELSE h.bid,
         ask |-> IF DOMAIN after.asks # {}
                 THEN [h.ask EXCEPT ![t] =
                          FromSnapshot(SetMin({KeyToDecimal(p) : p \in DOMAIN after.asks}))]
                 ELSE h.ask,
         snap |-> IF repeat THEN h.snap
                  ELSE [h.snap EXCEPT ![t] = [set |-> TRUE, msg |-> msg, after |-> after]],
         again |-> IF ~repeat THEN "no"
                   ELSE IF status.kind = "disconnected" THEN "reconnected" ELSE "same",
         last |-> h.last]

\* The history after the records of a price_change object, in array order.
RECURSIVE TrackChanges(_, _)
TrackChanges(h, items) ==
    IF items = <<>> THEN h
    ELSE LET it == Head(items)
             t == it.asset_id
             h1 == IF t \notin TokenIds THEN h
                   ELSE [bid |-> IF it.best_bid.k # "none"
                                 THEN [h.bid EXCEPT ![t] = FromDelta(ToDecimal(it.best_bid))]
                                 ELSE h.bid,
                         ask |-> IF it.best_ask.k # "none"
                                 THEN [h.ask EXCEPT ![t] = FromDelta(ToDecimal(it.best_ask))]
                                 ELSE h.ask,
                         snap |-> [h.snap EXCEPT ![t] = NoSnap],
                         again |-> h.again,
                         last |-> h.last]
         IN  TrackChanges(h1, Tail(items))

\* The history after the objects of one frame, in array order; acc is the
\* accumulator of ProcessItems before the first of them.
RECURSIVE TrackItems(_, _, _)
TrackItems(h, acc, items) ==
    IF items = <<>> THEN h
    ELSE LET msg == Head(items)
             nxt == ProcessMsg(acc, msg)
             h0 == [h EXCEPT !.again = "no"]
             h1 == IF IsSnapshot(msg)
                   THEN IF msg.asset_id \in TokenIds
                        THEN TrackSnapshot(h0, msg.asset_id, msg,
                                           nxt.books[msg.asset_id], acc.status)
                        ELSE h0
                   ELSE IF IsPriceChange(msg)
                   THEN TrackChanges(h0, IterLevels(msg.price_changes))
                   ELSE h0
         IN  TrackItems(h1, nxt, Tail(items))

\* Whether an object names an instrument, and none that is subscribed.
NamesOnlyUntracked(msg) ==
    \/ IsSnapshot(msg) /\ msg.has_asset /\ msg.asset_id \notin TokenIds
    \/ /\ IsPriceChange(msg)
       /\ IterLevels(msg.price_changes) # <<>>
       /\ \A i \in DOMAIN IterLevels(msg.price_changes) :
             IterLevels(msg.price_changes)[i].asset_id \notin TokenIds

\* hist.last after a frame with the given objects that left the flag `flag`.
LastOfFrame(items, flag) ==
    IF flag THEN "wrote"
    ELSE IF items # <<>> /\ \A i \in DOMAIN items : NamesOnlyUntracked(items[i])
    THEN "untracked"
    ELSE "quiet"

\* ----------------------------------------------------------------- reading
\* The rows of a side map: (price parsed from the key, size), size > 0 only.
Rows(level_map) ==
    {<<KeyToDecimal(k), level_map[k]>> : k \in {j \in DOMAIN level_map : level_map[j] > 0}}

\* rows.sort(key=lambda t: t[0], reverse=True): highest price first.
RECURSIVE SortDesc(_)
SortDesc(rows) ==
    IF rows = {} THEN <<>>
    ELSE LET top == CHOOSE r \in rows : \A o \in rows : r[1] >= o[1]
         IN  <<top>> \o SortDesc(rows \ {top})

\* rows.sort(key=lambda t: t[0]): lowest price first.
RECURSIVE SortAsc(_)
SortAsc(rows) ==
    IF rows = {} THEN <<>>
    ELSE LET low == CHOOSE r \in rows : \A o \in rows : r[1] <= o[1]
         IN  <<low>> \o SortAsc(rows \ {low})

\* rows[:depth] for depth >= 0.
Take(rows, depth) == SubSeq(rows, 1, Min2(depth, Len(rows)))

\* The slice taken from the wrong end: rows[-depth:].
LevelsDescFromTail(level_map, depth) ==
    LET rows == SortDesc(Rows(level_map))
    IN  SubSeq(rows, Len(rows) - Min2(depth, Len(rows)) + 1, Len(rows))

\* _levels_desc (lines 133-136) and _levels_asc (lines 139-142).
LevelsDesc(level_map, depth) == Take(SortDesc(Rows(level_map)), depth)
LevelsAsc(level_map, depth) == Take(SortAsc(Rows(level_map)), depth)

\* ------------------------------------------------------------- HTTP client
\* An HTTP response as _request sees it: ok, status_code, reason, text,
\* whether the body is JSON text (parses) and, if so, the value it decodes
\* to (json).
OkResponse(data) ==
    [ok |-> TRUE, status_code |-> 200, reason |-> "OK", text |-> "",
     parses |-> TRUE, json |-> data]
ErrResponse(code, reason, text) ==
    [ok |-> FALSE, status_code |-> code, reason |-> reason, text |-> text,
     parses |-> FALSE, json |-> <<>>]
\* A 2xx response whose body is not JSON (an HTML page, an empty body).
OkResponseNotJson ==
    [ok |-> TRUE, status_code |-> 200, reason |-> "OK", text |-> "<html>",
     parses |-> FALSE, json |-> <<>>]

\* The APIError dataclass (lines 14-21), the exception response.json()
\* raises on a body that is not JSON, and no exception.
APIError(status_code, message, body) ==
    [raised |-> TRUE, type |-> "APIError", status_code |-> status_code,
     message |-> message, body |-> body]
DecodeError ==
    [raised |-> TRUE, type |-> "JSONDecodeError", status_code |-> 0,
     message |-> "", body |-> ""]
NoError ==
    [raised |-> FALSE, type |-> "", status_code |-> 0, message |-> "", body |-> ""]

\* _request raising APIError with the reason phrase in place of the body.
RequestBodyFromReason(response) ==
    IF ~response.ok
    THEN [error |-> APIError(response.status_code,
                             IF response.reason = "" THEN "request failed"
                             ELSE response.reason,
                             response.reason),
          data |-> <<>>]
    ELSE IF ~response.parses
    THEN [error |-> DecodeError, data |-> <<>>]
    ELSE [error |-> NoError, data |-> response.json]

\* _request, given the response the session returns: the exception raised,
\* or the decoded body returned (lines 67-74).
Request(response) ==
    IF ~response.ok
    THEN [error |-> APIError(response.status_code,
                             IF response.reason = "" THEN "request failed"
                             ELSE response.reason,
                             response.text),
          data |-> <<>>]
    ELSE IF ~response.parses
    THEN [error |-> DecodeError, data |-> <<>>]
    ELSE [error |-> NoError, data |-> response.json]

\* No iterator has been created.
NoIterator ==
    [pc |-> "idle", path |-> "", page_size |-> 0, start |-> 0, offset |-> 0,
     requests |-> <<>>, pages |-> <<>>, yielded |-> <<>>, error |-> NoError]

\* iter_events / iter_markets called with page_size and filters holding
\* offset = start: the generator before its first request.
NewIterator(path, page_size, start) ==
    [pc |-> "paging", path |-> path, page_size |-> page_size, start |-> start,
     offset |-> start, requests |-> <<>>, pages |-> <<>>, yielded |-> <<>>,
     error |-> NoError]

\* The page of n items the endpoint returns to the r-th request.
PageOf(r, n) == [i \in 1..n |-> <<r, i>>]

\* What the endpoint may answer to the r-th request: a page of up to
\* MaxPageLen items (it need not honour limit), an error status with or
\* without reason phrase and body, or a 2xx whose body is not JSON.
Responses(r) ==
    {OkResponse(PageOf(r, n)) : n \in 0..MaxPageLen}
    \cup {ErrResponse(500, "Internal Server Error", "boom"), ErrResponse(404, "", ""),
          OkResponseNotJson}

\* ------------------------------------------------------------------ state
VARIABLES
    pc,               \* where stream_market_orderbook is suspended
    open,             \* websocket connections currently open
    subs,             \* the messages sent on the open connection, in order
    reconnect_delay,  \* the local of that name
    sleeping,         \* argument of the pending asyncio.sleep, 0 if none
    books,            \* token id -> order book state
    last_update_text, \* the status string handed to the dashboard
    changed,          \* the flag of the frame processed last
    exit,             \* how the coroutine ended, "" while it runs
    fails,            \* history: failures since the subscription was last sent
    hist,             \* history: what the wire last said, per instrument
    client            \* a PolymarketClient page iterator and what it has done

vars == <<pc, open, subs, reconnect_delay, sleeping, books, last_update_text,
          changed, exit, fails, hist, client>>

Init ==
    /\ pc = "Connecting"
    /\ open = 0
    /\ subs = <<>>
    /\ reconnect_delay = InitialDelay
    /\ sleeping = 0
    /\ books = [t \in TokenIds |-> EmptyBook]
    /\ last_update_text = StatusWaiting
    /\ changed = FALSE
    /\ exit = ""
    /\ fails = 0
    /\ hist = InitHist
    /\ client = NoIterator

\* The doubling without its cap.
NextDelayUncapped(d) == d * BackoffFactor

\* Line 400.
NextDelay(d) == Min2(MaxDelay, d * BackoffFactor)

\* A try block that wraps only the receive loop.
CaughtInLoopOnly(at) == at = "recv"

\* Whether the try block of lines 340-384 catches a transport exception
\* (ConnectionClosed, OSError, TimeoutError) raised while awaiting `at`:
\* connect, send and recv all sit inside it.
Caught(at) == at \in {"connect", "send", "recv"}

\* An exception leaving the coroutine without the connection being closed.
RaiseLeavingOpen(how) ==
    /\ pc' = "Terminated"
    /\ exit' = how
    /\ open' = open
    /\ subs' = subs
    /\ sleeping' = 0
    /\ reconnect_delay' = InitialDelay
    /\ books' = [t \in TokenIds |-> EmptyBook]
    /\ last_update_text' = StatusWaiting
    /\ changed' = FALSE
    /\ fails' = 0
    /\ hist' = InitHist
    /\ UNCHANGED client

\* An exception leaves the coroutine: `async with` closes the connection and
\* the frame is gone, its locals (books, reconnect_delay, last_update_text,
\* changed) with it; they and the history read as at the start from then on.
Raise(how) ==
    /\ pc' = "Terminated"
    /\ exit' = how
    /\ open' = 0
    /\ subs' = <<>>
    /\ sleeping' = 0
    /\ reconnect_delay' = InitialDelay
    /\ books' = [t \in TokenIds |-> EmptyBook]
    /\ last_update_text' = StatusWaiting
    /\ changed' = FALSE
    /\ fails' = 0
    /\ hist' = InitHist
    /\ UNCHANGED client

\* The except clause doubling the delay before announcing the old one and
\* sleeping the new one.
TransportErrorDoublingFirst(at) ==
    /\ fails < MaxFails
    /\ pc' = "Backoff"
    /\ open' = 0
    /\ subs' = <<>>
    /\ last_update_text' = StatusDisconnected(reconnect_delay)
    /\ reconnect_delay' = NextDelay(reconnect_delay)
    /\ sleeping' = NextDelay(reconnect_delay)
    /\ fails' = fails + 1
    /\ hist' = [hist EXCEPT !.again = "no", !.last = "wrote"]
    /\ UNCHANGED <<books, changed, exit, client>>

\* The except clause starting every book afresh.
TransportErrorClearingBooks(at) ==
    /\ fails < MaxFails
    /\ pc' = "Backoff"
    /\ open' = 0
    /\ subs' = <<>>
    /\ books' = [t \in TokenIds |-> EmptyBook]
    /\ last_update_text' = StatusDisconnected(reconnect_delay)
    /\ sleeping' = reconnect_delay
    /\ fails' = fails + 1
    /\ hist' = [InitHist EXCEPT !.last = "wrote"]
    /\ UNCHANGED <<reconnect_delay, changed, exit, client>>

\* A transport exception raised while awaiting `at`: the except clause of
\* lines 384-399, up to the suspension in asyncio.sleep.
TransportError(at) ==
    /\ fails < MaxFails
    /\ IF Caught(at)
       THEN /\ pc' = "Backoff"
            /\ open' = 0
            /\ subs' = <<>>
            /\ last_update_text' = StatusDisconnected(reconnect_delay)
            /\ sleeping' = reconnect_delay
            /\ fails' = fails + 1
            /\ hist' = [hist EXCEPT !.again = "no", !.last = "wrote"]
            /\ UNCHANGED <<reconnect_delay, books, changed, exit, client>>
       ELSE Raise("error")

\* websockets.connect succeeds (line 341).
ConnectOk ==
    /\ pc = "Connecting"
    /\ pc' = "Subscribing"
    /\ open' = open + 1
    /\ subs' = <<>>
    /\ hist' = [hist EXCEPT !.last = "quiet"]
    /\ UNCHANGED <<reconnect_delay, sleeping, books, last_update_text, changed, exit,
                   fails, client>>

ConnectFail == pc = "Connecting" /\ TransportError("connect")

\* The subscription sent twice.
SendOkTwice ==
    /\ pc = "Subscribing"
    /\ pc' = "Streaming"
    /\ subs' = subs \o <<Subscription(token_ids), Subscription(token_ids)>>
    /\ reconnect_delay' = InitialDelay
    /\ fails' = 0
    /\ hist' = [hist EXCEPT !.last = "quiet"]
    /\ UNCHANGED <<open, sleeping, books, last_update_text, changed, exit, client>>

\* ws.send(json.dumps(subscription)) succeeds (lines 342-343).
SendOk ==
    /\ pc = "Subscribing"
    /\ pc' = "Streaming"
    /\ subs' = Append(subs, Subscription(token_ids))
    /\ reconnect_delay' = InitialDelay
    /\ fails' = 0
    /\ hist' = [hist EXCEPT !.last = "quiet"]
    /\ UNCHANGED <<open, sleeping, books, last_update_text, changed, exit, client>>

SendFail == pc = "Subscribing" /\ TransportError("send")

\* ws.recv() returns `frame`; lines 347-383.
RecvFrame(frame) ==
    /\ pc = "Streaming"
    /\ IF ~frame.json
       THEN \* json.loads raises JSONDecodeError, which no except clause names
            Raise("error")
       ELSE IF frame.shape = "other"
       THEN /\ hist' = [hist EXCEPT !.last = "quiet"]
            /\ UNCHANGED <<pc, open, subs, reconnect_delay, sleeping, books,
                           last_update_text, changed, exit, fails, client>>
       ELSE LET start == [books |-> books, changed |-> FALSE,
                          status |-> last_update_text]
                r == ProcessItems(FrameItems(frame), start)
            IN  /\ books' = r.books
                /\ changed' = r.changed
                /\ last_update_text' = r.status
                /\ hist' = [TrackItems([hist EXCEPT !.again = "no"], start,
                                       FrameItems(frame))
                              EXCEPT !.last = LastOfFrame(FrameItems(frame), r.changed)]
                /\ UNCHANGED <<pc, open, subs, reconnect_delay, sleeping, exit, fails,
                               client>>

RecvFail == pc = "Streaming" /\ TransportError("recv")

\* asyncio.sleep returns; line 400.
SleepDone ==
    /\ pc = "Backoff"
    /\ pc' = "Connecting"
    /\ reconnect_delay' = NextDelay(reconnect_delay)
    /\ sleeping' = 0
    /\ hist' = [hist EXCEPT !.last = "quiet"]
    /\ UNCHANGED <<open, subs, books, last_update_text, changed, exit, fails, client>>

\* The task is cancelled while suspended in any of its awaits.
Cancel ==
    /\ pc \in {"Connecting", "Subscribing", "Streaming", "Backoff"}
    /\ Raise("cancelled")

Receive == \E frame \in Frames : RecvFrame(frame)

Next ==
    \/ ConnectOk
    \/ ConnectFail
    \/ SendOk
    \/ SendFail
    \/ Receive
    \/ RecvFail
    \/ SleepDone
    \/ Cancel

Spec == Init /\ [][Next]_vars

\* asyncio.sleep(reconnect_delay) returns once the delay has passed.
FairSpec == Spec /\ WF_vars(SleepDone)

\* ---------------------------------------------------------------- startup
\* The value of the selected market's clobTokenIds: a list, a string (JSON
\* text of a list, JSON text of something else, or not JSON), or anything
\* else (missing, null, a number).
ClobList(items) == [kind |-> "list", json |-> TRUE, items |-> items]
ClobText(items) == [kind |-> "str-list", json |-> TRUE, items |-> items]
ClobTextOther == [kind |-> "str-other", json |-> TRUE, items |-> <<>>]
ClobTextBad == [kind |-> "str", json |-> FALSE, items |-> <<>>]
ClobMissing == [kind |-> "none", json |-> FALSE, items |-> <<>>]

ClobValues ==
    { ClobList(token_ids), ClobText(token_ids), ClobList(<<>>), ClobText(<<>>),
      ClobTextOther, ClobTextBad, ClobMissing }

\* _parse_list: the list itself, the list a string decodes to, else [].
ParseList(value) ==
    IF value.kind \in {"list", "str-list"} THEN value.items ELSE <<>>

\* main without its check of the resolved list.
MainUnchecked(value) ==
    /\ pc = "Main"
    /\ pc' = "Connecting"
    /\ UNCHANGED <<open, subs, reconnect_delay, sleeping, books, last_update_text,
                   changed, exit, fails, hist, client>>

\* main from line 434 on, for a market whose clobTokenIds is `value`: the
\* ValueError of line 437, or asyncio.run(stream_market_orderbook(..)) up
\* to its first await.
Main(value) ==
    /\ pc = "Main"
    /\ IF ParseList(value) = <<>>
       THEN Raise("ValueError")
       ELSE /\ ParseList(value) = token_ids
            /\ pc' = "Connecting"
            /\ UNCHANGED <<open, subs, reconnect_delay, sleeping, books,
                           last_update_text, changed, exit, fails, hist, client>>

Startup == \E value \in ClobValues : Main(value)

InitMain ==
    /\ pc = "Main"
    /\ open = 0
    /\ subs = <<>>
    /\ reconnect_delay = InitialDelay
    /\ sleeping = 0
    /\ books = [t \in TokenIds |-> EmptyBook]
    /\ last_update_text = StatusWaiting
    /\ changed = FALSE
    /\ exit = ""
    /\ fails = 0
    /\ hist = InitHist
    /\ client = NoIterator

NextMain ==
    \/ Startup
    \/ Next

\* The program from main on.
MainSpec == InitMain /\ [][NextMain]_vars

\* ------------------------------------------------------------- pagination
\* The loop body stopping after a page of exactly page_size items as well.
IterStepStopOnFull(response) ==
    LET c == client
        req == [path |-> c.path, limit |-> c.page_size, offset |-> c.offset]
        res == Request(response)
        page == res.data
    IN  /\ c.pc = "paging"
        /\ Len(c.requests) < MaxRequests
        /\ client' =
             IF res.error.raised
             THEN [c EXCEPT !.pc = "raised", !.requests = Append(@, req),
                            !.error = res.error]
             ELSE IF page = <<>>
             THEN [c EXCEPT !.pc = "done", !.requests = Append(@, req),
                            !.pages = Append(@, page)]
             ELSE [c EXCEPT !.pc = IF Len(page) <= c.page_size THEN "done" ELSE "paging",
                            !.requests = Append(@, req),
                            !.pages = Append(@, page),
                            !.yielded = @ \o page,
                            !.offset = IF Len(page) <= c.page_size THEN @
                                       ELSE @ + c.page_size]
        /\ UNCHANGED <<pc, open, subs, reconnect_delay, sleeping, books,
                       last_update_text, changed, exit, fails, hist>>

\* One pass of `while True` in iter_events / iter_markets (lines 129-137,
\* 148-156) with the consumer taking every item: the request for the page
\* at `offset`, the APIError it may raise, the return on an empty page, the
\* yields, the return on a short page, the advance of offset.
IterStep(response) ==
    LET c == client
        req == [path |-> c.path, limit |-> c.page_size, offset |-> c.offset]
        res == Request(response)
        page == res.data
    IN  /\ c.pc = "paging"
        /\ Len(c.requests) < MaxRequests
        /\ client' =
             IF res.error.raised
             THEN [c EXCEPT !.pc = "raised", !.requests = Append(@, req),
                            !.error = res.error]
             ELSE IF page = <<>>
             THEN [c EXCEPT !.pc = "done", !.requests = Append(@, req),
                            !.pages = Append(@, page)]
             ELSE [c EXCEPT !.pc = IF Len(page) < c.page_size THEN "done" ELSE "paging",
                            !.requests = Append(@, req),
                            !.pages = Append(@, page),
                            !.yielded = @ \o page,
                            !.offset = IF Len(page) < c.page_size THEN @
                                       ELSE @ + c.page_size]
        /\ UNCHANGED <<pc, open, subs, reconnect_delay, sleeping, books,
                       last_update_text, changed, exit, fails, hist>>

\* iter_events pages through list_events, i.e. GET /events.
IterEvents ==
    /\ client.path = "/events"
    /\ \E response \in Responses(Len(client.requests) + 1) : IterStep(response)

\* iter_markets pages through list_markets, i.e. GET /markets.
IterMarkets ==
    /\ client.path = "/markets"
    /\ \E response \in Responses(Len(client.requests) + 1) : IterStep(response)

\* An iterator just created, for any page size and starting offset; the
\* streaming program is not running.
ClientInit ==
    /\ pc = "Main"
    /\ open = 0
    /\ subs = <<>>
    /\ reconnect_delay = InitialDelay
    /\ sleeping = 0
    /\ books = [t \in TokenIds |-> EmptyBook]
    /\ last_update_text = StatusWaiting
    /\ changed = FALSE
    /\ exit = ""
    /\ fails = 0
    /\ hist = InitHist
    /\ \E path \in {"/events", "/markets"} :
       \E page_size \in 0..MaxPageSize :
       \E start \in 0..MaxStart :
          client = NewIterator(path, page_size, start)

ClientNext ==
    \/ IterEvents
    \/ IterMarkets

ClientSpec == ClientInit /\ [][ClientNext]_vars

\* ------------------------------------------------------------------ claims
RECURSIVE Pow2(_)
Pow2(n) == IF n <= 0 THEN 1 ELSE 2 * Pow2(n - 1)

\* C1: the delay slept after the k-th consecutive transport failure since the
\* subscription was last sent (or since start) is min(30, 2^(k-1)) seconds:
\* 1, 2, 4, ... from Streaming, 1 again after every return to Streaming, and
\* never more than 30.
C1_BackoffDelay ==
    pc = "Backoff" => sleeping = Min2(30, Pow2(fails - 1))

\* The sixth consecutive failure sleeps the capped 30 s (not 32).
C1_Witness == pc = "Backoff" /\ fails = 6 /\ sleeping = 30

C3_BadJsonDiscarded ==
    [][RecvFrame(NotJson)
         => (pc' = "Streaming" /\ open' = open /\ exit' = ""
             /\ books' = books /\ last_update_text' = last_update_text)]_vars

\* C4: after any interleaving of snapshot and delta frames, best_bid is what
\* came later on the wire: the highest price of the bids map installed by the
\* latest snapshot whose bids map was non-empty, or the latest delta-supplied
\* best_bid (a value Decimal cannot parse counting as the 0 _to_decimal makes
\* of it); absent when neither happened.  best_ask likewise, lowest price.
Expected(source) == IF source.src = "none" THEN NoneVal ELSE Some(source.v)

C4_BestIsLatestOnWire ==
    \A t \in TokenIds :
        /\ books[t].best_bid = Expected(hist.bid[t])
        /\ books[t].best_ask = Expected(hist.ask[t])

\* A delta moved best_bid off the bids map a snapshot had installed, while
\* best_ask still is the snapshot's.
C4_Witness ==
    /\ hist.bid["t1"].src = "delta"
    /\ hist.ask["t1"].src = "snapshot"
    /\ DOMAIN books["t1"].bids # {}
    /\ books["t1"].best_bid # Some(SetMax({KeyToDecimal(p) : p \in DOMAIN books["t1"].bids}))

\* The levels a snapshot object carries for one side, under either key.
SideLevels(a, b) == IterLevels(a.lv \o b.lv)

\* Whether level l would be stored, and under which key.
Stored(l) == ToDecimal(l.size) > 0
KeyOf(l) == PriceKey(ToDecimal(l.price))

\* The map holds exactly the levels of the list with size > 0, by canonical
\* price, each key with the size of the last such level.
HoldsExactly(map, levels) ==
    /\ DOMAIN map = {KeyOf(levels[i]) : i \in {j \in DOMAIN levels : Stored(levels[j])}}
    /\ \A k \in DOMAIN map :
         LET last == SetMax({i \in DOMAIN levels : Stored(levels[i]) /\ KeyOf(levels[i]) = k})
         IN  map[k] = ToDecimal(levels[last].size)

\* A frame that is the single object m, a snapshot for subscribed instrument t.
SnapshotStep(m, t) ==
    /\ IsSnapshot(m)
    /\ m.asset_id = t
    /\ RecvFrame(Frame("dict", <<m>>))

\* C5: a snapshot replaces a side present in the frame wholesale: afterwards
\* the side's map holds exactly the levels of the frame's list with size > 0.
C5_SnapshotReplacesSide ==
    [][\A m \in Messages : \A t \in TokenIds :
         SnapshotStep(m, t) =>
           /\ (m.bids.has \/ m.buys.has) =>
                 HoldsExactly(books'[t].bids, SideLevels(m.bids, m.buys))
           /\ (m.asks.has \/ m.sells.has) =>
                 HoldsExactly(books'[t].asks, SideLevels(m.asks, m.sells))]_vars

\* The spec's example: bids 0.45 x 10 and 0.40 x 0, asks 0.55 x 5.
C5_Witness ==
    /\ hist.snap["t1"].set
    /\ hist.snap["t1"].msg.bids = Side(BidsA)
    /\ hist.snap["t1"].msg.asks = Side(AsksA)
    /\ books["t1"].bids = [k \in {4500} |-> ToDecimal(S10)]
    /\ books["t1"].asks = [k \in {5500} |-> ToDecimal(S5)]

\* C6: a snapshot replaces only the sides present in the frame: one carrying
\* no asks/sells leaves the asks map as it was, one carrying no bids/buys
\* leaves the bids map as it was.
C6_AbsentSideKept ==
    [][\A m \in Messages : \A t \in TokenIds :
         SnapshotStep(m, t) =>
           /\ (~m.asks.has /\ ~m.sells.has) => books'[t].asks = books[t].asks
           /\ (~m.bids.has /\ ~m.buys.has) => books'[t].bids = books[t].bids]_vars

\* C7: when the bids map a snapshot builds is empty best_bid keeps its value,
\* absent included; otherwise best_bid becomes the highest price in the map.
\* best_ask likewise with the lowest price.
C7_BestAfterSnapshot ==
    [][\A m \in Messages : \A t \in TokenIds :
         SnapshotStep(m, t) =>
           /\ books'[t].best_bid =
                 IF DOMAIN books'[t].bids = {} THEN books[t].best_bid
                 ELSE Some(SetMax({KeyToDecimal(p) : p \in DOMAIN books'[t].bids}))
           /\ books'[t].best_ask =
                 IF DOMAIN books'[t].asks = {} THEN books[t].best_ask
                 ELSE Some(SetMin({KeyToDecimal(p) : p \in DOMAIN books'[t].asks}))]_vars

\* A snapshot whose levels were all dropped came last, and the best prices
\* of before are still there over empty maps.
C7_Witness ==
    /\ hist.snap["t1"].set
    /\ hist.snap["t1"].msg.bids = Side(BidsDropped)
    /\ DOMAIN books["t1"].bids = {} /\ DOMAIN books["t1"].asks = {}
    /\ books["t1"].best_bid.some /\ books["t1"].best_ask.some

\* The records of a price_change object that name instrument t.
RecordsFor(m, t) == SelectSeq(IterLevels(m.price_changes), LAMBDA it : it.asset_id = t)

\* The value the last record carrying the field leaves, `old` if none does.
LastGiven(values, old) ==
    LET given == {i \in DOMAIN values : values[i].k # "none"}
    IN  IF given = {} THEN old ELSE Some(ToDecimal(values[SetMax(given)]))

\* C8: a price_change frame never modifies a side map of any instrument, and
\* overwrites only the best prices whose field a record carries; a best
\* price without a field keeps its value.
C8_DeltaTouchesBestOnly ==
    [][\A m \in Messages :
         (IsPriceChange(m) /\ RecvFrame(Frame("dict", <<m>>))) =>
           \A t \in TokenIds :
             LET recs == RecordsFor(m, t)
             IN  /\ books'[t].bids = books[t].bids
                 /\ books'[t].asks = books[t].asks
                 /\ books'[t].best_bid =
                       LastGiven([i \in DOMAIN recs |-> recs[i].best_bid], books[t].best_bid)
                 /\ books'[t].best_ask =
                       LastGiven([i \in DOMAIN recs |-> recs[i].best_ask], books[t].best_ask)]_vars

\* The spec's example: after the snapshot above, the delta best_bid 0.46.
C8_Witness ==
    /\ books["t1"].bids = [k \in {4500} |-> ToDecimal(S10)]
    /\ books["t1"].asks = [k \in {5500} |-> ToDecimal(S5)]
    /\ books["t1"].best_bid = Some(ToDecimal(P46))
    /\ books["t1"].best_ask = Some(ToDecimal(P55))
    /\ hist.bid["t1"].src = "delta"

\* C9: every size stored in a bids or asks map is strictly greater than 0.
C9_SizesPositive ==
    \A t \in TokenIds :
        /\ \A k \in DOMAIN books[t].bids : books[t].bids[k] > 0
        /\ \A k \in DOMAIN books[t].asks : books[t].asks[k] > 0

\* A snapshot with a zero-size bid level was applied and left its other level.
C9_Witness ==
    /\ hist.snap["t2"].set
    /\ hist.snap["t2"].msg.bids = Side(BidsA)
    /\ DOMAIN books["t2"].bids = {4500}

\* C10: a snapshot delivered again, with nothing else for its instrument in
\* between (a disconnect, backoff and reconnect may lie between), leaves the
\* instrument's book as it was after the first delivery.
C10_SnapshotIdempotent ==
    \A t \in TokenIds : hist.snap[t].set => books[t] = hist.snap[t].after

\* A snapshot with levels on both sides was delivered again after a reconnect.
C10_Witness ==
    /\ hist.again = "reconnected"
    /\ \E t \in TokenIds :
         /\ hist.snap[t].set
         /\ DOMAIN books[t].bids # {} /\ DOMAIN books[t].asks # {}

\* The multiple of 10^-KeyDigits nearest to d, the even one on a tie: what
\* "rounded to 4 fractional digits" denotes, written without the quantization.
Rounded(d) ==
    LET u == Pow10(MaxDigits - KeyDigits)
        near == {n \in (d \div u)..((d \div u) + 1) :
                   \A o \in (d \div u)..((d \div u) + 1) :
                      (IF n * u >= d THEN n * u - d ELSE d - n * u)
                        <= (IF o * u >= d THEN o * u - d ELSE d - o * u)}
    IN  u * (IF Cardinality(near) = 1 THEN CHOOSE n \in near : TRUE
             ELSE CHOOSE n \in near : n % 2 = 0)

\* The map has one entry per rounded price among the stored levels of the
\* list, and its keys denote exactly those prices.
OneEntryPerRoundedPrice(map, levels) ==
    LET prices == {Rounded(ToDecimal(levels[i].price)) :
                     i \in {j \in DOMAIN levels : Stored(levels[j])}}
    IN  /\ {KeyToDecimal(k) : k \in DOMAIN map} = prices
        /\ Cardinality(DOMAIN map) = Cardinality(prices)

\* C11: price keys are canonical: the levels of a snapshot whose prices are
\* equal after rounding to 4 fractional digits share one map entry, so the
\* side's map has exactly one key per rounded price.
C11_CanonicalKeys ==
    [][\A m \in Messages : \A t \in TokenIds :
         SnapshotStep(m, t) =>
           /\ (m.bids.has \/ m.buys.has) =>
                 OneEntryPerRoundedPrice(books'[t].bids, SideLevels(m.bids, m.buys))
           /\ (m.asks.has \/ m.sells.has) =>
                 OneEntryPerRoundedPrice(books'[t].asks, SideLevels(m.asks, m.sells))]_vars

\* Bids "0.50" x 3 and "0.5000" x 7 ended as the one entry 0.5000 x 7.
C11_Witness ==
    /\ hist.snap["t1"].set
    /\ hist.snap["t1"].msg.bids = Side(BidsB)
    /\ books["t1"].bids = [k \in {5000} |-> ToDecimal(S7)]

\* C12: every connection carries exactly one subscription message, sent
\* before any frame is read from it, and it names the same instrument list
\* on every connection of the run.
C12_OneSubscriptionPerConnection ==
    /\ [][ConnectOk => subs' = <<>>]_vars
    /\ [][SendOk => subs' = <<Subscription(token_ids)>>]_vars
    /\ [][(\E f \in Frames : RecvFrame(f))
            => (subs = <<Subscription(token_ids)>> /\ subs' \in {subs, <<>>})]_vars
    /\ [](pc = "Streaming" => (open = 1 /\ Len(subs) = 1))

\* A frame was applied on a connection opened after a failure, over which
\* the one subscription had been sent.
C12_Witness ==
    /\ pc = "Streaming"
    /\ last_update_text.kind = "timestamp"
    /\ reconnect_delay = InitialDelay
    /\ hist.again = "reconnected"
    /\ subs = <<Subscription(token_ids)>>

\* C13: when the resolved instrument list is empty, startup ends with an
\* error raised to the caller and no connection is ever attempted: the
\* session goes from main straight to its end and stays there.
C13_EmptySubscriptionFatal ==
    /\ [][\A value \in ClobValues :
            (Main(value) /\ ParseList(value) = <<>>)
              => (pc' = "Terminated" /\ exit' = "ValueError" /\ open' = 0)]_vars
    /\ [][pc = "Terminated" => UNCHANGED vars]_vars
    /\ [][pc' = "Connecting"
            => (pc = "Backoff" \/ \E value \in ClobValues :
                                     Main(value) /\ ParseList(value) # <<>>)]_vars

\* main ended with the ValueError.
C13_Witness == pc = "Terminated" /\ exit = "ValueError" /\ open = 0 /\ subs = <<>>

\* The classification as the specification words it: event type "book", or
\* an instrument identifier together with a side list under any of its names.
ClaimedSnapshot(m) ==
    \/ m.event_type = "book"
    \/ m.has_asset /\ (m.bids.has \/ m.buys.has \/ m.asks.has \/ m.sells.has)

\* C14: an object whose event type is "book", or that carries an instrument
\* identifier and a side list named bids, buys, asks or sells, is applied as
\* a snapshot when its instrument is tracked.
C14_SnapshotClassification ==
    [][\A m \in Messages : \A t \in TokenIds :
         (ClaimedSnapshot(m) /\ m.asset_id = t /\ RecvFrame(Frame("dict", <<m>>)))
           => (books'[t] = ApplyBookSnapshot(books[t], m) /\ changed')]_vars

\* The instruments named by the subscription sent on the open connection.
Subscribed == {subs[1].assets_ids[i] : i \in DOMAIN subs[1].assets_ids}

\* The frames whose objects name unsubscribed instruments only.
UntrackedFrames ==
    {f \in Frames :
       /\ f.json /\ f.shape # "other" /\ FrameItems(f) # <<>>
       /\ \A i \in DOMAIN FrameItems(f) : NamesOnlyUntracked(FrameItems(f)[i])}

\* C15: the instruments that have a book are at all times those of the
\* subscription: every book is empty at the start, none is added or removed,
\* and a frame naming only unsubscribed instruments leaves every book as it
\* was.
C15_TrackedSetFixed ==
    /\ books = [t \in TokenIds |-> EmptyBook]
    /\ [](DOMAIN books = TokenIds)
    /\ [](pc = "Streaming" => DOMAIN books = Subscribed)
    /\ [][\A f \in UntrackedFrames :
            RecvFrame(f) => (books' = books /\ ~changed')]_vars

\* A frame for an unsubscribed instrument has just been dropped while both
\* subscribed instruments hold a book.
C15_Witness ==
    /\ pc = "Streaming"
    /\ hist.last = "untracked"
    /\ DOMAIN books = TokenIds
    /\ \A t \in TokenIds : DOMAIN books[t].bids # {}

\* The frames whose payload is processed: an object or an array.
ProcessedFrames == {f \in Frames : f.json /\ f.shape # "other"}

\* C16 as stated: the flag left by a processed frame is true if and only if
\* the frame changed the book of at least one instrument.
C16_ChangedIffStateChanged ==
    [][(\E f \in ProcessedFrames : RecvFrame(f))
         => (changed' <=> books' # books)]_vars

\* Whether a frame has something to apply: a snapshot for a subscribed
\* instrument, or a price_change record for one that carries a best price.
Applies(f) ==
    \E i \in DOMAIN FrameItems(f) :
       LET m == FrameItems(f)[i]
           recs == IterLevels(m.price_changes)
       IN  \/ IsSnapshot(m) /\ m.asset_id \in TokenIds
           \/ /\ IsPriceChange(m)
              /\ \E j \in DOMAIN recs :
                    /\ recs[j].asset_id \in TokenIds
                    /\ recs[j].best_bid.k # "none" \/ recs[j].best_ask.k # "none"

\* C16, amended: the flag left by a processed frame is true if and only if
\* the frame applied something (a flag that disagrees with Applies(f) rules
\* the frame out as the one received), so it is true whenever a book
\* changed, and also when what was applied left the books as they were.
C16_ChangedIffApplied ==
    /\ [][\A f \in ProcessedFrames :
            (changed' # Applies(f)) => ~RecvFrame(f)]_vars
    /\ [][(pc = "Streaming" /\ pc' = "Streaming" /\ books' # books) => changed']_vars

\* A snapshot delivered twice running: the second delivery set the flag and
\* left the book as it was.
C16_Witness ==
    /\ pc = "Streaming"
    /\ changed
    /\ hist.again = "same"
    /\ \E t \in TokenIds : hist.snap[t].set /\ books[t] = hist.snap[t].after

\* C17: the status string is written on every transition of the session
\* (entering Streaming once the subscription is sent, Streaming to Backoff,
\* Backoff to Connecting) and on every frame that changed a book, and what
\* is written is a timestamp or the disconnect message with its delay.
C17_StatusOnEveryTransition ==
    [][(\/ pc = "Subscribing" /\ pc' = "Streaming"
        \/ pc = "Streaming" /\ pc' = "Backoff"
        \/ pc = "Backoff" /\ pc' = "Connecting"
        \/ pc = "Streaming" /\ pc' = "Streaming" /\ books' # books)
         => (/\ hist'.last = "wrote"
             /\ last_update_text'.kind \in {"timestamp", "disconnected"})]_vars

\* The rows are levels of the map with size > 0, min(N, number of levels)
\* of them, and no level left out is better than one returned, where
\* Better(p, q) says that price p ranks before price q.
TopOf(rows, map, N, Better(_, _)) ==
    /\ Len(rows) = Min2(N, Cardinality(DOMAIN map))
    /\ \A i \in DOMAIN rows :
         /\ rows[i][2] > 0
         /\ \E k \in DOMAIN map : KeyToDecimal(k) = rows[i][1] /\ map[k] = rows[i][2]
    /\ \A i \in DOMAIN rows : i < Len(rows) => Better(rows[i][1], rows[i + 1][1])
    /\ \A k \in DOMAIN map :
         (\A i \in DOMAIN rows : rows[i][1] # KeyToDecimal(k))
           => \A i \in DOMAIN rows : Better(rows[i][1], KeyToDecimal(k))

\* The side maps of the books, bids and asks alike.
SideMaps == {books[t].bids : t \in TokenIds} \cup {books[t].asks : t \in TokenIds}

\* C18: for every side map and depth N >= 1 the bid accessor returns the N
\* highest-priced levels in strictly descending price order and the ask
\* accessor the N lowest-priced levels in strictly ascending price order
\* (all levels when there are fewer than N), every one with size > 0.
C18_TopLevels ==
    \A map \in SideMaps : \A N \in 1..MaxDepth :
        /\ TopOf(LevelsDesc(map, N), map, N, LAMBDA p, q : p > q)
        /\ TopOf(LevelsAsc(map, N), map, N, LAMBDA p, q : p < q)

\* A book with two bid levels and three ask levels, read at depths that
\* cut both sides short.
C18_Witness ==
    /\ LevelsDesc(books["t1"].bids, 1) = <<<<KeyToDecimal(4500), ToDecimal(S7)>>>>
    /\ Cardinality(DOMAIN books["t1"].bids) = 2
    /\ LevelsAsc(books["t1"].asks, 2)
         = <<<<KeyToDecimal(0), ToDecimal(S3)>>, <<KeyToDecimal(5500), ToDecimal(S7)>>>>
    /\ Cardinality(DOMAIN books["t1"].asks) = 3

\* C19: the connection is a scoped resource: at most one is open, one is
\* open exactly while the session subscribes or streams, and none is open
\* once that scope has been left, whether for Backoff and the next attempt
\* or for the end of the session (an exception or a cancellation).
C19_ScopedConnection ==
    /\ open \in {0, 1}
    /\ pc \in {"Subscribing", "Streaming"} => open = 1
    /\ pc \in {"Connecting", "Backoff", "Terminated"} => open = 0

\* The session ended on an exception raised while streaming (the only place
\* an exception is not caught), and the connection it had open is closed.
C19_Witness == pc = "Terminated" /\ exit = "error" /\ open = 0

\* All items of a sequence of pages, in order.
RECURSIVE Flatten(_)
Flatten(pages) == IF pages = <<>> THEN <<>> ELSE Head(pages) \o Flatten(Tail(pages))

\* A page that ends the iteration: empty, or shorter than page_size.
EndsIteration(page) == page = <<>> \/ Len(page) < client.page_size

\* C20: the i-th request of iter_events / iter_markets asks its endpoint for
\* limit = page_size at offset = start + (i-1) * page_size; the items yielded
\* are those of the pages fetched, in order; a page is followed by another
\* request only if it is neither empty nor shorter than page_size, and the
\* iterator has finished exactly when the last page fetched is such a page.
C20_Pagination ==
    LET c == client
    IN  /\ \A i \in DOMAIN c.requests :
             c.requests[i] = [path |-> c.path, limit |-> c.page_size,
                              offset |-> c.start + (i - 1) * c.page_size]
        /\ c.yielded = Flatten(c.pages)
        /\ Len(c.pages) = IF c.pc = "raised" THEN Len(c.requests) - 1 ELSE Len(c.requests)
        /\ \A i \in DOMAIN c.pages : i < Len(c.requests) => ~EndsIteration(c.pages[i])
        /\ c.pc = "done" <=> (c.pages # <<>> /\ Len(c.pages) = Len(c.requests)
                                 /\ EndsIteration(c.pages[Len(c.pages)]))

\* The repository's test: page_size 2, pages of 2 and then 1 item; two
\* requests, at offsets 0 and 2, three items yielded, iteration over.
C20_Witness ==
    /\ client.pc = "done"
    /\ client.path = "/events"
    /\ client.page_size = 2
    /\ client.requests = << [path |-> "/events", limit |-> 2, offset |-> 0],
                            [path |-> "/events", limit |-> 2, offset |-> 2] >>
    /\ client.yielded = << <<1, 1>>, <<1, 2>>, <<2, 1>> >>

\* The request of an iterator step answered by `response` raised APIError
\* with the response's status code and body text, and gave no data.
RaisedAPIError(response) ==
    /\ client'.pc = "raised"
    /\ client'.error.raised /\ client'.error.type = "APIError"
    /\ client'.error.status_code = response.status_code
    /\ client'.error.body = response.text
    /\ client'.pages = client.pages /\ client'.yielded = client.yielded

\* The request returned the decoded body and raised nothing.
ReturnedBody(response) ==
    /\ client'.pc # "raised"
    /\ client'.error = NoError
    /\ client'.pages = Append(client.pages, response.json)

\* C21 as stated: a response that is not OK raises APIError with its status
\* code and body text and gives no data; every OK response returns the
\* parsed body and raises nothing.
C21_ErrorOrData ==
    [][\A response \in Responses(Len(client.requests) + 1) :
         IterStep(response) =>
           IF ~response.ok THEN RaisedAPIError(response) ELSE ReturnedBody(response)]_vars

\* C21, amended: as stated for the responses that are not OK and for the OK
\* responses whose body is JSON; an OK response whose body is not JSON
\* raises the decoder's exception, which is not an APIError, and gives no
\* data.
C21_ErrorOrDataForJsonBodies ==
    [][\A response \in Responses(Len(client.requests) + 1) :
         IterStep(response) =>
           IF ~response.ok THEN RaisedAPIError(response)
           ELSE IF response.parses THEN ReturnedBody(response)
           ELSE /\ client'.pc = "raised"
                /\ client'.error.raised /\ client'.error.type # "APIError"
                /\ client'.pages = client.pages /\ client'.yielded = client.yielded]_vars

\* The repository's test (status 500, body "boom"), met on the second
\* request after a first page was returned and yielded.
C21_Witness ==
    /\ client.pc = "raised"
    /\ client.error = APIError(500, "Internal Server Error", "boom")
    /\ Len(client.requests) = 2
    /\ client.pages = <<PageOf(1, 2)>>
    /\ client.yielded = PageOf(1, 2)

\* C22: a failed connect, send or receive, the backoff sleep and the next
\* connect and subscription leave every book (bids, asks, best_bid,
\* best_ask) as it was; while the session lives, a book changes only in a
\* step that processes a frame and raises the changed flag.
C22_BooksSurviveReconnect ==
    /\ [][(ConnectFail \/ SendFail \/ RecvFail \/ SleepDone \/ ConnectOk \/ SendOk)
            => books' = books]_vars
    /\ [][(books' # books /\ pc' # "Terminated")
            => (pc = "Streaming" /\ pc' = "Streaming" /\ changed')]_vars

\* Streaming again after a failure, no frame applied since, and the book of
\* "t1" still holds the levels and best prices of the earlier snapshot.
C22_Witness ==
    /\ pc = "Streaming"
    /\ last_update_text.kind = "disconnected"
    /\ books["t1"].bids = [k \in {4500} |-> ToDecimal(S10)]
    /\ books["t1"].asks = [k \in {5500} |-> ToDecimal(S5)]
    /\ books["t1"].best_bid = Some(ToDecimal(P45))
    /\ books["t1"].best_ask = Some(ToDecimal(P55))

\* The number of seconds a disconnect message announces.
Announced(status) == status.delay \div 10

\* C23: on every transport failure the disconnect message announces exactly
\* the delay that is then slept, which is the delay as it stood before the
\* failure; the delay is doubled (up to the cap) only when the sleep is over,
\* so the doubling shows in the following failure alone.
C23_AnnouncedDelayIsSlept ==
    /\ [][(ConnectFail \/ SendFail \/ RecvFail)
            => /\ last_update_text'.kind = "disconnected"
               /\ last_update_text'.delay = 10 * sleeping'
               /\ sleeping' = reconnect_delay
               /\ reconnect_delay' = reconnect_delay]_vars
    /\ [](pc = "Backoff"
            => (Announced(last_update_text) = sleeping /\ reconnect_delay = sleeping))
    /\ [][SleepDone => reconnect_delay' = Min2(30, 2 * sleeping)]_vars

\* The third failure in a row: 4 s announced, 4 s being slept, the delay
\* not yet doubled.
C23_Witness ==
    /\ pc = "Backoff"
    /\ fails = 3
    /\ last_update_text = [kind |-> "disconnected", delay |-> 40]
    /\ sleeping = 4
    /\ reconnect_delay = 4

====
